---- MODULE Spec2Model ----
(***************************************************************************)
(* Subscription ledger and entitlement gate of the website-builder         *)
(* backend.  The ledger is the Subscription collection, written by the     *)
(* Stripe webhook handlers and by the cancel / reactivate commands; the    *)
(* gate is the publish / custom-domain / verify-domain handlers that read  *)
(* it.  Every handler is one atomic action at one instant `now`.           *)
(*                                                                         *)
(* A handler that awaits between a read and a write that depends on it is   *)
(* also given as two actions, with the request held in `inflight` between  *)
(* them.                                                                   *)
(*                                                                         *)
(* The specifications share the variables and Init:                        *)
(*   Spec          the ledger: webhook events, cancel, reactivate          *)
(*   SpecGate      the gate: the website routes, fed by checkout events    *)
(*   SpecQuery     the bulk entitlement query over two subscriptions       *)
(*   SpecLifecycle creation and removal of records: subscribe, checkout,   *)
(*                 cancel, delete website                                  *)
(*   SpecUpsert    duplicate and concurrent deliveries of upserting events *)
(*   SpecDomains   concurrent custom-domain assignments                    *)
(*   SpecDelete    website deletion step by step                           *)
(*   SpecRace      cancel overlapping deliveries of upserting events       *)
(*   SpecVerify    domain verification overlapping domain assignment       *)
(*                                                                         *)
(* Not modelled: email, productId, trialEnd, metadata passthrough, slug,   *)
(* html/css/js, thumbnails, view counters, createdAt/updatedAt, and the    *)
(* authentication middleware (requests are taken as authenticated).        *)
(* endedAt is assigned by cancelSubscription but is no schema path, so     *)
(* the strict schema drops it on save.                                     *)
(***************************************************************************)
EXTENDS Integers, Sequences, FiniteSets, TLC

VARIABLES now, subscriptions, websites, last, inflight

vars == <<now, subscriptions, websites, last, inflight>>

(* ------------------------------ bounds -------------------------------- *)

\* The clock runs over 1..MaxTime.
MaxTime == 2

(* ------------------------------ values -------------------------------- *)

\* A null Date.  Like null in JavaScript it is falsy, and every real
\* timestamp (1..MaxTime) is truthy.
Null == 0

Times == 1..MaxTime

\* An absent identifier or absent string field of a request or payload.
NoId == ""

UserIds == {"u1", "u2"}

WebsiteIds == {"w1", "w2"}

SubIds == {"sub_1", "sub_2", "sub_3"}

\* The subscription the ledger specification follows.
LedgerSubs == {"sub_1"}

\* The ids the ledger specification names in commands and in the events that
\* create no record: its own subscription, and one it has never seen.
EventSubs == {"sub_1", "sub_2"}

\* The subscriptions the query specification holds: two of the same website.
QuerySubs == {"sub_1", "sub_2"}

\* The subscription ids the gate specification delivers events for: one
\* subscription per website.
GateSubs == {"sub_1", "sub_3"}

\* Website.userId, set at creation and never written again.
WebsiteOwner(w) == IF w = "w1" THEN "u1" ELSE "u2"

\* subscription.metadata at the provider, written once by createSubscription
\* after it has checked that the website belongs to the user.
StripeMetadata(s) ==
  LET w == IF s = "sub_3" THEN "w2" ELSE "w1"
  IN  [websiteId |-> w, userId |-> WebsiteOwner(w)]

\* Subscription.status enum.
Statuses == {"active", "canceled", "incomplete", "past_due", "unpaid", "trialing"}

\* Defaults of the Subscription schema for the paths an upsert does not set.
SchemaDefaults ==
  [userId |-> NoId, websiteId |-> NoId, status |-> "incomplete",
   startDate |-> Null, currentPeriodEnd |-> Null, canceledAt |-> Null,
   cancelAtPeriodEnd |-> FALSE]

\* Defaults of the Website schema, as createWebsite leaves a new website.
NewWebsite(w) ==
  [userId |-> WebsiteOwner(w), customDomain |-> "",
   isCustomDomainVerified |-> FALSE, domainVerifiedAt |-> Null,
   isPublished |-> FALSE, publishedAt |-> Null]

\* The response of the handler that ran last, with the request it answered.
Response(op, arg, id, code) ==
  [op |-> op, arg |-> arg, id |-> id, code |-> code,
   requiresSubscription |-> FALSE, stripe |-> "none", body |-> <<>>]

(* --------------------------- entitlement ------------------------------ *)

\* SubscriptionSchema.methods.isActive
isActive(sub, t) == sub.status = "active" /\ sub.currentPeriodEnd > t

\* isSubscriptionValid: a null currentPeriodEnd does not invalidate.
isSubscriptionValid(sub, t) ==
  /\ sub.status = "active"
  /\ ~(sub.currentPeriodEnd # Null /\ sub.currentPeriodEnd <= t)

\* getActiveSubscription's query: the ids of the documents it can return.
ActiveSubscriptionQuery(subs, w, t) ==
  {s \in DOMAIN subs : /\ subs[s].websiteId = w
                       /\ subs[s].status = "active"
                       /\ subs[s].currentPeriodEnd > t}

\* getActiveSubscription(websiteId): what it can return, NoId for null.
\* findOne returns any one match, or null when there is none; a failed read
\* is caught and answered null.
getActiveSubscription(subs, w, t) ==
  (IF ActiveSubscriptionQuery(subs, w, t) # {}
   THEN ActiveSubscriptionQuery(subs, w, t) ELSE {NoId})
  \cup {NoId}

(* ------------------------- webhook handlers --------------------------- *)

\* What a handler leaves behind: the collection, and whether it threw.
Outcome(subs, threw) == [subs |-> subs, threw |-> threw]

\* Model.findOneAndUpdate({subscriptionId}, update, {upsert}): the update
\* sets the paths of `update` (a function from path names to values).
findOneAndUpdate(subs, sid, update, upsert) ==
  IF sid \in DOMAIN subs \/ upsert
  THEN LET old == IF sid \in DOMAIN subs THEN subs[sid] ELSE SchemaDefaults
           doc == [f \in DOMAIN old |->
                     IF f \in DOMAIN update THEN update[f] ELSE old[f]]
       IN  [x \in DOMAIN subs \cup {sid} |-> IF x = sid THEN doc ELSE subs[x]]
  ELSE subs

\* past_due and unpaid are stored as incomplete.
MapStatus(status) ==
  IF status = "past_due" \/ status = "unpaid" THEN "incomplete" ELSE status

\* handleCheckoutCompleted(session): sid is session.subscription, stripeOk
\* whether the two retrieve calls succeed, sub the subscription retrieved.
handleCheckoutCompleted(subs, sid, stripeOk, sub) ==
  IF sid = NoId THEN Outcome(subs, FALSE)
  ELSE IF ~stripeOk THEN Outcome(subs, TRUE)
  ELSE IF sub.metadata.websiteId = NoId \/ sub.metadata.userId = NoId
       THEN Outcome(subs, FALSE)
  ELSE Outcome(findOneAndUpdate(subs, sid,
         [userId |-> sub.metadata.userId,
          websiteId |-> sub.metadata.websiteId,
          status |-> sub.status,
          startDate |-> sub.current_period_start,
          currentPeriodEnd |-> sub.current_period_end,
          cancelAtPeriodEnd |-> sub.cancel_at_period_end], TRUE), FALSE)

\* handlePaymentSucceeded that extends the stored period by the length of the
\* invoiced one instead of setting its end.
handlePaymentSucceeded_ExtendsPeriod(subs, sid, stripeOk, sub, lineStart, lineEnd) ==
  IF sid = NoId THEN Outcome(subs, FALSE)
  ELSE IF ~stripeOk THEN Outcome(subs, TRUE)
  ELSE Outcome(findOneAndUpdate(subs, sid,
         [userId |-> sub.metadata.userId,
          websiteId |-> sub.metadata.websiteId,
          status |-> MapStatus(sub.status),
          startDate |-> IF lineStart # Null THEN lineStart
                        ELSE sub.current_period_start,
          currentPeriodEnd |->
            IF sid \in DOMAIN subs THEN subs[sid].currentPeriodEnd + 1
            ELSE sub.current_period_end,
          cancelAtPeriodEnd |-> sub.cancel_at_period_end], TRUE), FALSE)

\* handlePaymentSucceeded(invoice): lineEnd / lineStart are the period of the
\* invoice's first line item, Null when the invoice carries none.
handlePaymentSucceeded(subs, sid, stripeOk, sub, lineStart, lineEnd) ==
  IF sid = NoId THEN Outcome(subs, FALSE)
  ELSE IF ~stripeOk THEN Outcome(subs, TRUE)
  ELSE Outcome(findOneAndUpdate(subs, sid,
         [userId |-> sub.metadata.userId,
          websiteId |-> sub.metadata.websiteId,
          status |-> MapStatus(sub.status),
          startDate |-> IF lineStart # Null THEN lineStart
                        ELSE sub.current_period_start,
          currentPeriodEnd |-> IF lineEnd # Null THEN lineEnd
                               ELSE sub.current_period_end,
          cancelAtPeriodEnd |-> sub.cancel_at_period_end], TRUE), FALSE)

\* handlePaymentFailed that also clears the scheduled cancellation.
handlePaymentFailed_ClearsCancel(subs, sid) ==
  IF sid = NoId THEN Outcome(subs, FALSE)
  ELSE Outcome(findOneAndUpdate(subs, sid,
         [status |-> "incomplete", cancelAtPeriodEnd |-> FALSE,
          canceledAt |-> Null], FALSE), FALSE)

\* handlePaymentFailed(invoice)
handlePaymentFailed(subs, sid) ==
  IF sid = NoId THEN Outcome(subs, FALSE)
  ELSE Outcome(findOneAndUpdate(subs, sid, [status |-> "incomplete"], FALSE),
               FALSE)

\* handleSubscriptionUpdated with { upsert: true }.
handleSubscriptionUpdated_Upsert(subs, sub) ==
  Outcome(findOneAndUpdate(subs, sub.id,
    [status |-> MapStatus(sub.status),
     currentPeriodEnd |-> sub.current_period_end,
     cancelAtPeriodEnd |-> sub.cancel_at_period_end,
     canceledAt |-> IF sub.canceled_at # Null THEN sub.canceled_at ELSE Null],
    TRUE), FALSE)

\* handleSubscriptionUpdated that leaves a canceled record alone.
handleSubscriptionUpdated_KeepsCanceled(subs, sub) ==
  IF sub.id \in DOMAIN subs /\ subs[sub.id].status = "canceled"
  THEN Outcome(subs, FALSE)
  ELSE Outcome(findOneAndUpdate(subs, sub.id,
         [status |-> MapStatus(sub.status),
          currentPeriodEnd |-> sub.current_period_end,
          cancelAtPeriodEnd |-> sub.cancel_at_period_end,
          canceledAt |-> IF sub.canceled_at # Null THEN sub.canceled_at ELSE Null],
         FALSE), FALSE)

\* handleSubscriptionUpdated(subscription)
handleSubscriptionUpdated(subs, sub) ==
  Outcome(findOneAndUpdate(subs, sub.id,
    [status |-> MapStatus(sub.status),
     currentPeriodEnd |-> sub.current_period_end,
     cancelAtPeriodEnd |-> sub.cancel_at_period_end,
     canceledAt |-> IF sub.canceled_at # Null THEN sub.canceled_at ELSE Null],
    FALSE), FALSE)

\* handleSubscriptionDeleted with { upsert: true }, as the two upserting
\* handlers have it.
handleSubscriptionDeleted_Upsert(subs, sid, canceled_at, t) ==
  Outcome(findOneAndUpdate(subs, sid,
    [status |-> "canceled",
     canceledAt |-> IF canceled_at # Null THEN canceled_at ELSE t,
     cancelAtPeriodEnd |-> FALSE], TRUE), FALSE)

\* handleSubscriptionDeleted(subscription), run at time t.
handleSubscriptionDeleted(subs, sid, canceled_at, t) ==
  Outcome(findOneAndUpdate(subs, sid,
    [status |-> "canceled",
     canceledAt |-> IF canceled_at # Null THEN canceled_at ELSE t,
     cancelAtPeriodEnd |-> FALSE], FALSE), FALSE)

\* handleTrialWillEnd(subscription): reads the record and logs.
handleTrialWillEnd(subs, sid) == Outcome(subs, FALSE)

\* The event types handleWebhook's switch has a case for.
HandledEventTypes ==
  {"checkout.session.completed", "invoice.payment_succeeded",
   "invoice.payment_failed", "customer.subscription.updated",
   "customer.subscription.deleted", "customer.subscription.trial_will_end"}

\* A default case that throws on a type it does not know.
handleUnhandledEvent_Throws(subs) == Outcome(subs, TRUE)

\* The default case of handleWebhook's switch: the type is logged.
handleUnhandledEvent(subs) == Outcome(subs, FALSE)

\* The request and the JSON body of a webhook response: whether
\* constructEvent accepted the signature, whether the handler of the event
\* threw, and the received / eventType members of the body (FALSE and NoId
\* when the body has none).
WebhookBody(type, sigOk, threw) ==
  [verified |-> sigOk, threw |-> sigOk /\ threw,
   received |-> sigOk /\ ~threw,
   eventType |-> IF sigOk /\ ~threw THEN type ELSE NoId]

\* handleWebhook whose outer catch answers 200, so that the provider does not
\* retry.
handleWebhook_SwallowsFailure(type, sid, sigOk, outcome) ==
  /\ subscriptions' = IF sigOk THEN outcome.subs ELSE subscriptions
  /\ last' = [Response("webhook", type, sid, IF ~sigOk THEN 400 ELSE 200)
               EXCEPT !.body = WebhookBody(type, sigOk, outcome.threw)]
  /\ UNCHANGED <<now, websites, inflight>>

\* handleWebhook: 400 on a bad signature before anything is applied, 500 when
\* the handler of the event threw, 200 otherwise.
handleWebhook(type, sid, sigOk, outcome) ==
  /\ subscriptions' = IF sigOk THEN outcome.subs ELSE subscriptions
  /\ last' = [Response("webhook", type, sid,
                 IF ~sigOk THEN 400 ELSE IF outcome.threw THEN 500 ELSE 200)
               EXCEPT !.body = WebhookBody(type, sigOk, outcome.threw)]
  /\ UNCHANGED <<now, websites, inflight>>

(* --------------------------- ledger commands -------------------------- *)

\* What a command leaves behind: the collection, the HTTP status, and the
\* provider call it issued ("none" when it issued none).
Result(subs, code, stripe) == [subs |-> subs, code |-> code, stripe |-> stripe]

\* One document replaced by document.save().
save(subs, sid, doc) == [subs EXCEPT ![sid] = doc]

\* cancelNow without the write of currentPeriodEnd.
cancelNow_KeepsPeriod(doc, t) ==
  [doc EXCEPT !.status = "canceled", !.canceledAt = t,
              !.cancelAtPeriodEnd = FALSE]

\* The immediate branch of cancelSubscription, run at time t.
cancelNow(doc, t) ==
  [doc EXCEPT !.status = "canceled", !.canceledAt = t,
              !.cancelAtPeriodEnd = FALSE, !.currentPeriodEnd = t]

\* The cancel-at-period-end branch of cancelSubscription: reply is the
\* subscription the provider's update call returned.
cancelAtEnd(doc, reply, t) ==
  [doc EXCEPT !.cancelAtPeriodEnd = TRUE, !.canceledAt = t,
              !.status = IF reply.status # NoId THEN reply.status ELSE "active"]

\* The catch block of cancelSubscription.
cancelErrorCode(err) ==
  IF err.type = "StripeInvalidRequestError" THEN 400
  ELSE IF err.code = "resource_missing" THEN 404
  ELSE 500

\* cancelSubscription without the test for an already canceled record.
cancelSubscription_NoCanceledTest(subs, sid, userId, cancelImmediately, stripe, t) ==
  IF sid = NoId THEN Result(subs, 400, "none")
  ELSE IF sid \notin DOMAIN subs THEN Result(subs, 404, "none")
  ELSE IF userId # NoId /\ subs[sid].userId # userId THEN Result(subs, 403, "none")
  ELSE LET call == IF cancelImmediately THEN "cancel" ELSE "update"
       IN  IF ~stripe.ok THEN Result(subs, cancelErrorCode(stripe), call)
           ELSE IF cancelImmediately
                THEN Result(save(subs, sid, cancelNow(subs[sid], t)), 200, call)
                ELSE Result(save(subs, sid, cancelAtEnd(subs[sid], stripe, t)),
                            200, call)

\* cancelSubscription(req, res), run at time t; stripe is what the provider
\* call returns or throws.
cancelSubscription(subs, sid, userId, cancelImmediately, stripe, t) ==
  IF sid = NoId THEN Result(subs, 400, "none")
  ELSE IF sid \notin DOMAIN subs THEN Result(subs, 404, "none")
  ELSE IF userId # NoId /\ subs[sid].userId # userId THEN Result(subs, 403, "none")
  ELSE IF subs[sid].status = "canceled" THEN Result(subs, 400, "none")
  ELSE LET call == IF cancelImmediately THEN "cancel" ELSE "update"
       IN  IF ~stripe.ok THEN Result(subs, cancelErrorCode(stripe), call)
           ELSE IF cancelImmediately
                THEN Result(save(subs, sid, cancelNow(subs[sid], t)), 200, call)
                ELSE Result(save(subs, sid, cancelAtEnd(subs[sid], stripe, t)),
                            200, call)

\* reactivateSubscription without the cancelAtPeriodEnd guard.
reactivateSubscription_Unguarded(subs, sid, userId, stripe) ==
  IF sid = NoId THEN Result(subs, 400, "none")
  ELSE IF sid \notin DOMAIN subs THEN Result(subs, 404, "none")
  ELSE IF userId # NoId /\ subs[sid].userId # userId THEN Result(subs, 403, "none")
  ELSE IF ~stripe.ok THEN Result(subs, 500, "update")
  ELSE Result(save(subs, sid, [subs[sid] EXCEPT !.cancelAtPeriodEnd = FALSE,
                                                !.status = "active"]),
              200, "update")

\* reactivateSubscription that writes the record before the provider call.
reactivateSubscription_WritesFirst(subs, sid, userId, stripe) ==
  IF sid = NoId THEN Result(subs, 400, "none")
  ELSE IF sid \notin DOMAIN subs THEN Result(subs, 404, "none")
  ELSE IF userId # NoId /\ subs[sid].userId # userId THEN Result(subs, 403, "none")
  ELSE IF ~subs[sid].cancelAtPeriodEnd THEN Result(subs, 400, "none")
  ELSE Result(save(subs, sid, [subs[sid] EXCEPT !.cancelAtPeriodEnd = FALSE,
                                                !.status = "active"]),
              IF stripe.ok THEN 200 ELSE 500, "update")

\* reactivateSubscription(req, res)
reactivateSubscription(subs, sid, userId, stripe) ==
  IF sid = NoId THEN Result(subs, 400, "none")
  ELSE IF sid \notin DOMAIN subs THEN Result(subs, 404, "none")
  ELSE IF userId # NoId /\ subs[sid].userId # userId THEN Result(subs, 403, "none")
  ELSE IF ~subs[sid].cancelAtPeriodEnd THEN Result(subs, 400, "none")
  ELSE IF ~stripe.ok THEN Result(subs, 500, "update")
  ELSE Result(save(subs, sid, [subs[sid] EXCEPT !.cancelAtPeriodEnd = FALSE,
                                                !.status = "active"]),
              200, "update")

\* createSubscription(req, res), run at time t: complete is whether the body
\* carries priceId, email, websiteId and userId in a valid form.  A request
\* that passes the checks reaches the stripe.checkout.sessions.create call,
\* whose argument reads FRONTEND_URL_LIVE, an identifier the module does not
\* declare: building the argument throws a ReferenceError, no session is
\* created, and the catch block answers 500.
createSubscription(subs, sites, userId, websiteId, complete, t) ==
  IF ~complete THEN Result(subs, 400, "none")
  ELSE IF websiteId \notin DOMAIN sites \/ sites[websiteId].userId # userId
       THEN Result(subs, 404, "none")
  ELSE IF \E s \in DOMAIN subs : /\ subs[s].userId = userId
                                   /\ subs[s].websiteId = websiteId
                                   /\ subs[s].status = "active"
                                   /\ subs[s].currentPeriodEnd >= t
       THEN Result(subs, 409, "none")
  ELSE Result(subs, 500, "none")

(* ----------------------------- bulk query ----------------------------- *)

\* The documents getBulkSubscriptionStatus's find() matches.
BulkQuery(subs, userId, ids) ==
  {s \in DOMAIN subs : /\ subs[s].userId = userId
                       /\ subs[s].websiteId \in ids
                       /\ subs[s].status = "active"}

\* The forEach over the documents found, in the order the store returned
\* them: each document overwrites the entry of its website.
RECURSIVE BulkFold(_, _, _, _)
BulkFold(subs, order, statusMap, t) ==
  IF order = <<>> THEN statusMap
  ELSE LET s == Head(order)
           isValid == subs[s].currentPeriodEnd > t
       IN  BulkFold(subs, Tail(order),
             [statusMap EXCEPT ![subs[s].websiteId] =
                [hasActive |-> isValid,
                 subscription |-> IF isValid THEN s ELSE NoId]], t)

\* getBulkSubscriptionStatus(userId, websiteIds), run at time t: order is the
\* sequence of matching documents as the store returned it; a failed read is
\* caught and answered with the empty object.
getBulkSubscriptionStatus(subs, userId, ids, dbOk, order, t) ==
  IF ~dbOk THEN <<>>
  ELSE BulkFold(subs, order,
         [w \in ids |-> [hasActive |-> FALSE, subscription |-> NoId]], t)

\* Every order in which the store can return a set of documents.
Orders(S) ==
  {o \in [1..Cardinality(S) -> S] : \A i, j \in DOMAIN o : i # j => o[i] # o[j]}

(* ------------------------------ the gate ------------------------------ *)

\* The domains a request can name: two well-formed ones, one of them also
\* in upper case, and one that is no domain.
Domains == {"a.com", "b.com"}

RequestDomains == Domains \cup {"A.COM", "not a domain"}

\* String.prototype.toLowerCase on the request domains.
toLowerCase(d) == IF d = "A.COM" THEN "a.com" ELSE d

\* domainRegex.test
domainRegex(d) == d \in Domains

\* What a website handler leaves behind: the collection, the HTTP status and
\* the requiresSubscription flag of the body.
GateResult(sites, code, rs) ==
  [sites |-> sites, code |-> code, requiresSubscription |-> rs]

\* requireActiveSubscription with the check lost: every request is passed on.
requireActiveSubscription_PassAll(subs, userId, found) ==
  [code |-> 0, requiresSubscription |-> FALSE]

\* requireActiveSubscription(req, res, next): found is what
\* getActiveSubscription returned (NoId for null), userId is req.body.userId.
\* code 0 stands for the call of next().
requireActiveSubscription(subs, userId, found) ==
  IF found = NoId THEN [code |-> 403, requiresSubscription |-> TRUE]
  ELSE IF userId # NoId /\ subs[found].userId # userId
       THEN [code |-> 403, requiresSubscription |-> FALSE]
  ELSE [code |-> 0, requiresSubscription |-> FALSE]

\* Subscription.findOne({userId, websiteId, status: 'active'}) of the three
\* website handlers: any one match, or null.
findOneActive(subs, userId, w) ==
  LET match == {s \in DOMAIN subs : /\ subs[s].userId = userId
                                     /\ subs[s].websiteId = w
                                     /\ subs[s].status = "active"}
  IN  IF match = {} THEN {NoId} ELSE match

\* The expiry test of publishWebsite and setCustomDomain.
hasExpired(sub, t) == sub.currentPeriodEnd # Null /\ sub.currentPeriodEnd < t

\* publishWebsite(req, res), run at time t, for a request without a slug:
\* found is the document its findOne returned.
publishWebsite(sites, subs, w, isPublished, found, t) ==
  IF w \notin DOMAIN sites THEN GateResult(sites, 404, FALSE)
  ELSE IF isPublished /\ found = NoId THEN GateResult(sites, 403, TRUE)
  ELSE IF isPublished /\ hasExpired(subs[found], t)
       THEN GateResult(sites, 403, TRUE)
  ELSE GateResult([sites EXCEPT ![w].isPublished = isPublished,
                                ![w].publishedAt = IF isPublished THEN t ELSE Null],
                  200, FALSE)

\* setCustomDomain that resets the verification only when the domain changes.
setCustomDomain_KeepsVerification(sites, subs, w, domain, found, t) ==
  LET cleanDomain == toLowerCase(domain)
  IN  IF domain = NoId THEN GateResult(sites, 400, FALSE)
      ELSE IF ~domainRegex(cleanDomain) THEN GateResult(sites, 400, FALSE)
      ELSE IF w \notin DOMAIN sites THEN GateResult(sites, 404, FALSE)
      ELSE IF found = NoId THEN GateResult(sites, 403, TRUE)
      ELSE IF hasExpired(subs[found], t) THEN GateResult(sites, 403, TRUE)
      ELSE IF \E x \in DOMAIN sites : x # w /\ sites[x].customDomain = cleanDomain
           THEN GateResult(sites, 409, FALSE)
      ELSE IF sites[w].customDomain = cleanDomain THEN GateResult(sites, 200, FALSE)
      ELSE GateResult([sites EXCEPT ![w].customDomain = cleanDomain,
                                    ![w].isCustomDomainVerified = FALSE,
                                    ![w].domainVerifiedAt = Null],
                      200, FALSE)

\* setCustomDomain(req, res), run at time t.
setCustomDomain(sites, subs, w, domain, found, t) ==
  LET cleanDomain == toLowerCase(domain)
  IN  IF domain = NoId THEN GateResult(sites, 400, FALSE)
      ELSE IF ~domainRegex(cleanDomain) THEN GateResult(sites, 400, FALSE)
      ELSE IF w \notin DOMAIN sites THEN GateResult(sites, 404, FALSE)
      ELSE IF found = NoId THEN GateResult(sites, 403, TRUE)
      ELSE IF hasExpired(subs[found], t) THEN GateResult(sites, 403, TRUE)
      ELSE IF \E x \in DOMAIN sites : x # w /\ sites[x].customDomain = cleanDomain
           THEN GateResult(sites, 409, FALSE)
      ELSE GateResult([sites EXCEPT ![w].customDomain = cleanDomain,
                                    ![w].isCustomDomainVerified = FALSE,
                                    ![w].domainVerifiedAt = Null],
                      200, FALSE)

\* verifyDNSRecord(domain, targetSlug): answers true for every domain.
verifyDNSRecord(domain) == TRUE

\* verifyCustomDomain(req, res), run at time t.
verifyCustomDomain(sites, subs, w, domain, found, t) ==
  IF w \notin DOMAIN sites THEN GateResult(sites, 404, FALSE)
  ELSE IF sites[w].customDomain # toLowerCase(domain)
       THEN GateResult(sites, 400, FALSE)
  ELSE IF found = NoId THEN GateResult(sites, 403, TRUE)
  ELSE IF verifyDNSRecord(domain)
       THEN GateResult([sites EXCEPT ![w].isCustomDomainVerified = TRUE,
                                     ![w].domainVerifiedAt = t],
                       200, FALSE)
  ELSE GateResult(sites, 400, FALSE)

\* The ObjectId test of deleteWebsite: the website ids are well-formed, any
\* other string is not.
isObjectId(w) == w \in WebsiteIds

\* What deleteWebsite leaves behind: both collections, the HTTP status and
\* the deletedCount of its deleteMany (0 when it did not run).
DeleteResult(sites, subs, code, deletedCount) ==
  [sites |-> sites, subs |-> subs, code |-> code, deletedCount |-> deletedCount]

\* Model.findByIdAndDelete / deleteMany: the collection without the ids gone.
without(coll, gone) == [x \in DOMAIN coll \ gone |-> coll[x]]

\* deleteWebsite that deletes the website and leaves its subscriptions.
deleteWebsite_KeepsSubscriptions(sites, subs, w, fails) ==
  IF ~isObjectId(w) THEN DeleteResult(sites, subs, 400, 0)
  ELSE IF w \notin DOMAIN sites THEN DeleteResult(sites, subs, 404, 0)
  ELSE IF fails # "none" THEN DeleteResult(without(sites, {w}), subs, 500, 0)
  ELSE DeleteResult(without(sites, {w}), subs, 200, 0)

\* deleteWebsite(req, res): the website is deleted first, then the usage
\* count of its template is decremented, then its subscriptions are deleted;
\* fails names the step that throws ("none" when none does).
deleteWebsite(sites, subs, w, fails) ==
  IF ~isObjectId(w) THEN DeleteResult(sites, subs, 400, 0)
  ELSE IF w \notin DOMAIN sites THEN DeleteResult(sites, subs, 404, 0)
  ELSE IF fails # "none" THEN DeleteResult(without(sites, {w}), subs, 500, 0)
  ELSE LET gone == {s \in DOMAIN subs : subs[s].websiteId = w}
       IN  DeleteResult(without(sites, {w}), without(subs, gone), 200,
                        Cardinality(gone))

\* The owner lookup of the website handlers: website.userId, NoId when the
\* website is not found (the handler has answered 404 before it is read).
ownerOf(sites, w) == IF w \in DOMAIN sites THEN sites[w].userId ELSE NoId

(* ----------------------- entitlement consumers ------------------------ *)

\* checkSubscription(req, res), run at time t: the hasActiveSubscription
\* member of its 200 body.
checkSubscription(subs, userId, w, t) ==
  \E s \in DOMAIN subs : /\ subs[s].userId = userId
                         /\ subs[s].websiteId = w
                         /\ subs[s].status = "active"
                         /\ subs[s].currentPeriodEnd >= t

\* hasActiveSubscription(userId, websiteId), run at time t: a failed read is
\* caught and answered false.
hasActiveSubscription(subs, userId, w, dbOk, t) ==
  /\ dbOk
  /\ \E s \in DOMAIN subs : /\ subs[s].userId = userId
                            /\ subs[s].websiteId = w
                            /\ subs[s].status = "active"
                            /\ subs[s].currentPeriodEnd > t

\* getWebsiteEdit(req, res): the hasActiveSubscription member of the data of
\* its 200 body, for an existing website w.
getWebsiteEdit(subs, sites, w) ==
  \E s \in DOMAIN subs : /\ subs[s].userId = sites[w].userId
                         /\ subs[s].websiteId = w
                         /\ subs[s].status = "active"

\* getWebsiteList(req, res): the hasActiveSubscription member of each
\* website of the user, from the subscriptionMap of the documents found.
getWebsiteList(subs, sites, userId) ==
  [w \in {x \in DOMAIN sites : sites[x].userId = userId} |->
     \E s \in DOMAIN subs : /\ subs[s].userId = userId
                            /\ subs[s].websiteId = w
                            /\ subs[s].status = "active"]

(* ------------------------------ inputs -------------------------------- *)

\* The subscription objects the provider can hold for the ids in S, with a
\* status in St and a cancel_at_period_end in Capes: what
\* stripe.subscriptions.retrieve returns.  A billing period lasts one tick.
StripeSubscriptions(S, St, Capes) ==
  {[id |-> s, status |-> st,
    current_period_start |-> IF pe > 1 THEN pe - 1 ELSE 1,
    current_period_end |-> pe, cancel_at_period_end |-> cape,
    metadata |-> StripeMetadata(s)] :
     s \in S, st \in St, pe \in Times, cape \in Capes}

\* The subscription object a customer.subscription.updated event carries.
StripeSubscriptionEvents(S, St) ==
  {[id |-> s, status |-> st, current_period_end |-> pe,
    cancel_at_period_end |-> cape, canceled_at |-> ca] :
     s \in S, st \in St, pe \in Times, cape \in BOOLEAN,
     ca \in Times \cup {Null}}

\* A subscription that was not created by createSubscription and carries no
\* metadata.
WithoutMetadata(sub) ==
  [sub EXCEPT !.metadata = [websiteId |-> NoId, userId |-> NoId]]

\* What an outbound provider call returns (ok, with the status of the
\* subscription returned, NoId when the reply carries none) or throws (an
\* error with a type and a code).
StripeResults(St) ==
  {[ok |-> TRUE, status |-> st, type |-> "", code |-> ""] : st \in St \cup {NoId}}
  \cup
  {[ok |-> FALSE, status |-> "", type |-> ty, code |-> c] :
     ty \in {"StripeInvalidRequestError", "StripeAPIError"},
     c \in {"resource_missing", ""}}

\* How a webhook delivery can go wrong before the upsert: a bad signature,
\* a payload without a subscription reference, a failing retrieve call, a
\* subscription without metadata.
DeliveryModes == {"ok", "bad_signature", "no_subscription", "stripe_fails", "no_metadata"}

\* The deliveries of an event about one of the subscription objects Subs: a
\* delivery that goes wrong never reads the object's billing state, so one
\* object per id stands for them all.
Deliveries(Subs, Modes) ==
  {[mode |-> "ok", sub |-> sub] : sub \in Subs}
  \cup
  {[mode |-> m, sub |-> CHOOSE sub \in Subs : sub.id = s] :
     m \in Modes \ {"ok"}, s \in {sub.id : sub \in Subs}}

(* ------------------------------ actions ------------------------------- *)

Init ==
  /\ now = 1
  /\ subscriptions = <<>>
  /\ websites = [w \in WebsiteIds |-> NewWebsite(w)]
  /\ last = Response("init", "", NoId, 0)
  /\ inflight = {}

\* Time passes between two requests.
Tick ==
  /\ now < MaxTime
  /\ now' = now + 1
  /\ last' = Response("tick", "", NoId, 0)
  /\ UNCHANGED <<subscriptions, websites, inflight>>

CheckoutCompleted(Subs) ==
  \E d \in Deliveries(Subs, DeliveryModes) :
    LET sid == IF d.mode = "no_subscription" THEN NoId ELSE d.sub.id
    IN  handleWebhook("checkout.session.completed", sid,
          d.mode # "bad_signature",
          handleCheckoutCompleted(subscriptions, sid, d.mode # "stripe_fails",
            IF d.mode = "no_metadata" THEN WithoutMetadata(d.sub) ELSE d.sub))

PaymentSucceeded(Subs) ==
  \E d \in Deliveries(Subs, DeliveryModes \ {"no_metadata"}),
     lineEnd \in Times \cup {Null} :
    LET sid == IF d.mode = "no_subscription" THEN NoId ELSE d.sub.id
    IN  handleWebhook("invoice.payment_succeeded", sid,
          d.mode # "bad_signature",
          handlePaymentSucceeded(subscriptions, sid, d.mode # "stripe_fails",
            d.sub, IF lineEnd = Null THEN Null ELSE 1, lineEnd))

PaymentFailed(S) ==
  \E sigOk \in BOOLEAN, sid \in S \cup {NoId} :
    handleWebhook("invoice.payment_failed", sid, sigOk,
      handlePaymentFailed(subscriptions, sid))

SubscriptionUpdated(S, St) ==
  \E sigOk \in BOOLEAN, sub \in StripeSubscriptionEvents(S, St) :
    handleWebhook("customer.subscription.updated", sub.id, sigOk,
      handleSubscriptionUpdated(subscriptions, sub))

SubscriptionDeleted(S) ==
  \E sigOk \in BOOLEAN, sid \in S, canceled_at \in Times \cup {Null} :
    handleWebhook("customer.subscription.deleted", sid, sigOk,
      handleSubscriptionDeleted(subscriptions, sid, canceled_at, now))

TrialWillEnd(S) ==
  \E sigOk \in BOOLEAN, sid \in S :
    handleWebhook("customer.subscription.trial_will_end", sid, sigOk,
      handleTrialWillEnd(subscriptions, sid))

\* An event type the switch has no case for.
OtherEvent(S) ==
  \E sigOk \in BOOLEAN, sid \in S :
    handleWebhook("customer.updated", sid, sigOk,
      handleUnhandledEvent(subscriptions))

Cancel(S, St) ==
  \E sid \in S \cup {NoId}, userId \in UserIds \cup {NoId},
     cancelImmediately \in BOOLEAN, stripe \in StripeResults(St) :
    LET r == cancelSubscription(subscriptions, sid, userId, cancelImmediately,
                                stripe, now)
    IN  /\ subscriptions' = r.subs
        /\ last' = [Response("cancel",
                       IF cancelImmediately THEN "immediate" ELSE "period_end",
                       sid, r.code) EXCEPT !.stripe = r.stripe]
        /\ UNCHANGED <<now, websites, inflight>>

Reactivate(S, St) ==
  \E sid \in S \cup {NoId}, userId \in UserIds \cup {NoId},
     stripe \in StripeResults(St) :
    LET r == reactivateSubscription(subscriptions, sid, userId, stripe)
    IN  /\ subscriptions' = r.subs
        /\ last' = [Response("reactivate", "", sid, r.code)
                      EXCEPT !.stripe = r.stripe]
        /\ UNCHANGED <<now, websites, inflight>>

QueryBulk ==
  \E userId \in UserIds, ids \in SUBSET WebsiteIds, dbOk \in BOOLEAN :
    \E order \in Orders(BulkQuery(subscriptions, userId, ids)) :
      /\ last' = [Response("bulk", userId, NoId, 0) EXCEPT
                    !.body = [ids |-> ids,
                              statusMap |-> getBulkSubscriptionStatus(
                                subscriptions, userId, ids, dbOk, order, now)]]
      /\ UNCHANGED <<now, subscriptions, websites, inflight>>

\* The ledger: the life of one subscription under every provider event and
\* both commands.
Next ==
  \/ Tick
  \/ CheckoutCompleted(StripeSubscriptions(LedgerSubs, Statuses, BOOLEAN))
  \/ PaymentSucceeded(StripeSubscriptions(LedgerSubs, Statuses, BOOLEAN))
  \/ PaymentFailed(EventSubs)
  \/ SubscriptionUpdated(EventSubs, Statuses)
  \/ SubscriptionDeleted(EventSubs)
  \/ TrialWillEnd(EventSubs)
  \/ OtherEvent(EventSubs)
  \/ Cancel(EventSubs, Statuses)
  \/ Reactivate(EventSubs, Statuses)

Spec == Init /\ [][Next]_vars

\* The bulk entitlement query over two subscriptions of one website.
NextQuery ==
  \/ Tick
  \/ CheckoutCompleted(StripeSubscriptions(QuerySubs, {"active", "canceled"}, {FALSE}))
  \/ QueryBulk

SpecQuery == Init /\ [][NextQuery]_vars

\* PUT /:websiteId/publish: requireActiveSubscription, then publishWebsite.
PublishRoute ==
  \E w \in WebsiteIds, userId \in UserIds \cup {NoId}, isPublished \in BOOLEAN :
    \E found \in getActiveSubscription(subscriptions, w, now),
       sub \in findOneActive(subscriptions, ownerOf(websites, w), w) :
      LET m == requireActiveSubscription(subscriptions, userId, found)
          r == IF m.code # 0
               THEN GateResult(websites, m.code, m.requiresSubscription)
               ELSE publishWebsite(websites, subscriptions, w, isPublished, sub, now)
      IN  /\ websites' = r.sites
          /\ last' = [Response("publish", IF isPublished THEN "true" ELSE "false",
                               w, r.code)
                        EXCEPT !.requiresSubscription = r.requiresSubscription]
          /\ UNCHANGED <<now, subscriptions, inflight>>

\* POST /:websiteId/custom-domain: requireActiveSubscription, then
\* setCustomDomain.
CustomDomainRoute ==
  \E w \in WebsiteIds, userId \in UserIds \cup {NoId},
     domain \in RequestDomains \cup {NoId} :
    \E found \in getActiveSubscription(subscriptions, w, now),
       sub \in findOneActive(subscriptions, ownerOf(websites, w), w) :
      LET m == requireActiveSubscription(subscriptions, userId, found)
          r == IF m.code # 0
               THEN GateResult(websites, m.code, m.requiresSubscription)
               ELSE setCustomDomain(websites, subscriptions, w, domain, sub, now)
      IN  /\ websites' = r.sites
          /\ last' = [Response("custom-domain", "", w, r.code)
                        EXCEPT !.requiresSubscription = r.requiresSubscription]
          /\ UNCHANGED <<now, subscriptions, inflight>>

\* GET /verify-domain/:domain?siteid=: verifyCustomDomain, behind no
\* subscription middleware.
VerifyDomainRoute ==
  \E w \in WebsiteIds, domain \in RequestDomains :
    \E sub \in findOneActive(subscriptions, ownerOf(websites, w), w) :
      LET r == verifyCustomDomain(websites, subscriptions, w, domain, sub, now)
      IN  /\ websites' = r.sites
          /\ last' = [Response("verify-domain", "", w, r.code)
                        EXCEPT !.requiresSubscription = r.requiresSubscription]
          /\ UNCHANGED <<now, subscriptions, inflight>>

\* The gate: the three gated website routes over two websites, each with one
\* subscription.
NextGate ==
  \/ Tick
  \/ CheckoutCompleted(StripeSubscriptions(GateSubs, {"active", "canceled"}, {FALSE}))
  \/ PublishRoute
  \/ CustomDomainRoute
  \/ VerifyDomainRoute

SpecGate == Init /\ [][NextGate]_vars

\* POST /subscribe
CreateSubscription ==
  \E userId \in UserIds, w \in WebsiteIds, complete \in BOOLEAN :
    LET r == createSubscription(subscriptions, websites, userId, w, complete, now)
    IN  /\ last' = [Response("subscribe", userId, w, r.code)
                      EXCEPT !.stripe = r.stripe]
        /\ UNCHANGED <<now, subscriptions, websites, inflight>>

\* DELETE /delete-website/:websiteId
DeleteWebsiteRoute ==
  \E w \in WebsiteIds \cup {"not an id"},
     fails \in {"none", "template", "subscriptions"} :
    LET r == deleteWebsite(websites, subscriptions, w, fails)
    IN  /\ websites' = r.sites
        /\ subscriptions' = r.subs
        /\ last' = [Response("delete-website", "", w, r.code)
                      EXCEPT !.body = [deletedCount |-> r.deletedCount]]
        /\ UNCHANGED <<now, inflight>>

\* Creation and removal of records: two subscriptions of one website under
\* subscribe, checkout, the deleted event, cancel, and website deletion.
NextLifecycle ==
  \/ Tick
  \/ CreateSubscription
  \/ CheckoutCompleted(StripeSubscriptions(QuerySubs, {"active", "canceled"}, {FALSE}))
  \/ SubscriptionDeleted(QuerySubs)
  \/ Cancel(QuerySubs, {"active"})
  \/ DeleteWebsiteRoute

SpecLifecycle == Init /\ [][NextLifecycle]_vars

(* ----------------- handlers split at their await points --------------- *)

\* The two requests that can be in flight at once.
RequestIds == {"r1", "r2"}

\* The request id a new request gets: the first one not in flight.
FreeRequest == IF \E d \in inflight : d.req = "r1" THEN "r2" ELSE "r1"

\* The events whose handlers upsert, as they reach findOneAndUpdate: the
\* subscription retrieved from the provider and, for an invoice, the period
\* end of its first line (Null when it has none).
UpsertEvents(Subs) ==
  {[type |-> "checkout.session.completed", sub |-> sub, lineEnd |-> Null] :
     sub \in Subs}
  \cup
  {[type |-> "invoice.payment_succeeded", sub |-> sub, lineEnd |-> le] :
     sub \in Subs, le \in {Null, MaxTime}}

\* The handler of an upserting event, from its findOneAndUpdate on.
applyUpsertEvent(subs, e) ==
  IF e.type = "checkout.session.completed"
  THEN handleCheckoutCompleted(subs, e.sub.id, TRUE, e.sub)
  ELSE handlePaymentSucceeded(subs, e.sub.id, TRUE, e.sub,
                              IF e.lineEnd = Null THEN Null ELSE 1, e.lineEnd)

\* A verified delivery of an upserting event runs up to the find of its
\* findOneAndUpdate({ subscriptionId }, ..., { upsert: true }): sawNone is
\* whether the find matched no document, so that the command will insert.
UpsertBegin(Subs) ==
  \E e \in UpsertEvents(Subs) :
    /\ Cardinality(inflight) < Cardinality(RequestIds)
    /\ inflight' = inflight \cup
         {[req |-> FreeRequest, op |-> "webhook", event |-> e,
           sawNone |-> e.sub.id \notin DOMAIN subscriptions]}
    /\ UNCHANGED <<now, subscriptions, websites, last>>

\* The delivery writes and answers.  An insert that finds the subscriptionId
\* taken meanwhile fails on the unique index of subscriptionId: the store
\* either retries the command as an update or reports the duplicate key,
\* which the handler rethrows.
UpsertFinish ==
  \E d \in inflight, retried \in BOOLEAN :
    LET sid == d.event.sub.id
        duplicateKey == d.sawNone /\ sid \in DOMAIN subscriptions
        outcome == IF duplicateKey /\ ~retried
                   THEN Outcome(subscriptions, TRUE)
                   ELSE applyUpsertEvent(subscriptions, d.event)
    IN  /\ d.op = "webhook"
        /\ (retried => duplicateKey)
        /\ subscriptions' = outcome.subs
        /\ last' = [Response("webhook", d.event.type, sid,
                       IF outcome.threw THEN 500 ELSE 200)
                     EXCEPT !.body = [event |-> d.event,
                                      duplicateKey |-> duplicateKey]]
        /\ inflight' = inflight \ {d}
        /\ UNCHANGED <<now, websites>>

\* Duplicate and concurrent deliveries of the two upserting events about one
\* subscription.
NextUpsert ==
  \/ Tick
  \/ UpsertBegin(StripeSubscriptions(LedgerSubs, {"active", "past_due"}, {FALSE}))
  \/ UpsertFinish

SpecUpsert == Init /\ [][NextUpsert]_vars

\* What stripe.subscriptions.retrieve returns for the ids in S while a cancel
\* command can run: 'canceled' once stripe.subscriptions.cancel has
\* succeeded for the subscription, which is when the local record is
\* 'canceled', and 'active' before.
RetrievableSubscriptions(S) ==
  {sub \in StripeSubscriptions(S, {"active", "canceled"}, {FALSE}) :
     sub.status = "canceled" <=>
       (sub.id \in DOMAIN subscriptions
          /\ subscriptions[sub.id].status = "canceled")}

\* A cancel of a subscription running between the retrieve and the upsert of
\* deliveries about it.
NextRace ==
  \/ Tick
  \/ UpsertBegin(RetrievableSubscriptions(LedgerSubs))
  \/ UpsertFinish
  \/ Cancel(LedgerSubs, {"active"})

SpecRace == Init /\ [][NextRace]_vars

\* website.save() of setCustomDomain: the three paths it modified.
saveCustomDomain(sites, w, cleanDomain) ==
  [sites EXCEPT ![w].customDomain = cleanDomain,
                ![w].isCustomDomainVerified = FALSE,
                ![w].domainVerifiedAt = Null]

\* POST /:websiteId/custom-domain up to its last read: the middleware and
\* setCustomDomain's checks, the uniqueness findOne being the last.  A request
\* that fails one of them is answered at once; one that passes them all
\* goes on to website.save().
CustomDomainBegin ==
  \E w \in WebsiteIds, userId \in UserIds \cup {NoId},
     domain \in RequestDomains \cup {NoId} :
    \E found \in getActiveSubscription(subscriptions, w, now),
       sub \in findOneActive(subscriptions, ownerOf(websites, w), w) :
      LET m == requireActiveSubscription(subscriptions, userId, found)
          r == IF m.code # 0
               THEN GateResult(websites, m.code, m.requiresSubscription)
               ELSE setCustomDomain(websites, subscriptions, w, domain, sub, now)
      IN  /\ Cardinality(inflight) < Cardinality(RequestIds)
          /\ IF r.code = 200
             THEN /\ inflight' = inflight \cup
                       {[req |-> FreeRequest, op |-> "custom-domain", w |-> w,
                         domain |-> toLowerCase(domain)]}
                  /\ UNCHANGED last
             ELSE /\ last' = [Response("custom-domain", "", w, r.code)
                       EXCEPT !.requiresSubscription = r.requiresSubscription]
                  /\ UNCHANGED inflight
          /\ UNCHANGED <<now, subscriptions, websites>>

\* website.save() and the 200 answer of setCustomDomain.
CustomDomainFinish ==
  \E d \in inflight :
    /\ d.op = "custom-domain"
    /\ websites' = saveCustomDomain(websites, d.w, d.domain)
    /\ last' = Response("custom-domain", "", d.w, 200)
    /\ inflight' = inflight \ {d}
    /\ UNCHANGED <<now, subscriptions>>

\* Custom-domain assignments on two entitled websites, overlapping or not.
NextDomains ==
  \/ Tick
  \/ CheckoutCompleted(StripeSubscriptions(GateSubs, {"active"}, {FALSE}))
  \/ CustomDomainBegin
  \/ CustomDomainFinish

SpecDomains == Init /\ [][NextDomains]_vars

\* DELETE /delete-website/:websiteId up to the return of findByIdAndDelete:
\* a malformed or unknown id is answered at once, otherwise the Website
\* document is gone and the handler goes on.
DeleteWebsiteBegin ==
  \E w \in WebsiteIds \cup {"not an id"} :
    /\ Cardinality(inflight) < Cardinality(RequestIds)
    /\ IF isObjectId(w) /\ w \in DOMAIN websites
       THEN /\ websites' = without(websites, {w})
            /\ inflight' = inflight \cup
                 {[req |-> FreeRequest, op |-> "delete-website", w |-> w]}
            /\ UNCHANGED last
       ELSE /\ last' = [Response("delete-website", "", w,
                          deleteWebsite(websites, subscriptions, w, "none").code)
                        EXCEPT !.body = [deletedCount |-> 0]]
            /\ UNCHANGED <<websites, inflight>>
    /\ UNCHANGED <<now, subscriptions>>

\* The rest of deleteWebsite: the template's usage count, then
\* Subscription.deleteMany({ websiteId }) and the 200 answer; a throw of
\* either is answered 500.
DeleteWebsiteFinish ==
  \E d \in inflight, fails \in {"none", "template", "subscriptions"} :
    LET gone == {s \in DOMAIN subscriptions : subscriptions[s].websiteId = d.w}
    IN  /\ d.op = "delete-website"
        /\ subscriptions' = IF fails = "none" THEN without(subscriptions, gone)
                            ELSE subscriptions
        /\ last' = [Response("delete-website", "", d.w,
                       IF fails = "none" THEN 200 ELSE 500)
                     EXCEPT !.body = [deletedCount |->
                       IF fails = "none" THEN Cardinality(gone) ELSE 0]]
        /\ inflight' = inflight \ {d}
        /\ UNCHANGED <<now, websites>>

\* Website deletion step by step, among checkout events of the website's two
\* subscriptions.
NextDelete ==
  \/ Tick
  \/ CheckoutCompleted(StripeSubscriptions(QuerySubs, {"active"}, {FALSE}))
  \/ DeleteWebsiteBegin
  \/ DeleteWebsiteFinish

SpecDelete == Init /\ [][NextDelete]_vars

\* GET /verify-domain/:domain?siteid= up to the return of verifyDNSRecord:
\* a request that fails a check is answered at once; one that passes them
\* all goes on, with the Website document it read, to website.save().
VerifyDomainBegin ==
  \E w \in WebsiteIds, domain \in RequestDomains :
    \E sub \in findOneActive(subscriptions, ownerOf(websites, w), w) :
      LET r == verifyCustomDomain(websites, subscriptions, w, domain, sub, now)
      IN  /\ Cardinality(inflight) < Cardinality(RequestIds)
          /\ IF r.code = 200
             THEN /\ inflight' = inflight \cup
                       {[req |-> FreeRequest, op |-> "verify-domain", w |-> w,
                         domain |-> toLowerCase(domain)]}
                  /\ UNCHANGED last
             ELSE /\ last' = [Response("verify-domain", "", w, r.code)
                       EXCEPT !.requiresSubscription = r.requiresSubscription]
                  /\ UNCHANGED inflight
          /\ UNCHANGED <<now, subscriptions, websites>>

\* website.save() and the 200 answer of verifyCustomDomain: save writes the
\* two paths the handler modified on the document it read.
VerifyDomainFinish ==
  \E d \in inflight :
    /\ d.op = "verify-domain"
    /\ websites' = [websites EXCEPT ![d.w].isCustomDomainVerified = TRUE,
                                    ![d.w].domainVerifiedAt = now]
    /\ last' = Response("verify-domain", "", d.w, 200)
    /\ inflight' = inflight \ {d}
    /\ UNCHANGED <<now, subscriptions>>

\* Domain verification step by step, among custom-domain assignments.
NextVerify ==
  \/ Tick
  \/ CheckoutCompleted(StripeSubscriptions(GateSubs, {"active"}, {FALSE}))
  \/ CustomDomainRoute
  \/ VerifyDomainBegin
  \/ VerifyDomainFinish

SpecVerify == Init /\ [][NextVerify]_vars

(* ------------------------------ claims -------------------------------- *)

\* The entitlement predicate of the data model: website w has a record with
\* status 'active' and currentPeriodEnd later than t.
HasEntitling(subs, w, t) ==
  \E s \in DOMAIN subs : /\ subs[s].websiteId = w
                         /\ subs[s].status = "active"
                         /\ subs[s].currentPeriodEnd > t

\* The last response grants one of the three gated actions.
GrantsGatedAction ==
  /\ last.code = 200
  /\ \/ last.op = "publish" /\ last.arg = "true"
     \/ last.op = "custom-domain"
     \/ last.op = "verify-domain"

\* C1: a gated action (publish with desired state true, assign custom domain,
\* verify custom domain) is granted only if the website has, at the time of
\* the request, a record that is 'active' with currentPeriodEnd > now.
C1_GrantedOnlyIfEntitled ==
  GrantsGatedAction => HasEntitling(subscriptions, last.id, now)

\* C2: a publish request with desired state false on an existing website
\* always succeeds and leaves the website unpublished, whatever its
\* subscriptions are.
C2_UnpublishAlwaysSucceeds ==
  (last.op = "publish" /\ last.arg = "false" /\ last.id \in DOMAIN websites)
    => (last.code = 200 /\ ~websites[last.id].isPublished)

\* C3: assigning a custom domain to a website with no entitling subscription
\* is answered 403 with requiresSubscription: true and writes no website.
C3_AssignWithoutEntitlementRejected ==
  [][(last'.op = "custom-domain" /\ ~HasEntitling(subscriptions, last'.id, now))
       => (/\ last'.code = 403
           /\ last'.requiresSubscription
           /\ websites' = websites)]_vars

\* C3 happens: a website that holds a domain from an earlier, entitled time
\* is refused a new assignment while its only record is 'active' but no
\* longer entitling.
C3_Witness ==
  /\ last.op = "custom-domain"
  /\ last.code = 403
  /\ last.requiresSubscription
  /\ ~HasEntitling(subscriptions, last.id, now)
  /\ websites[last.id].customDomain # ""
  /\ \E s \in DOMAIN subscriptions : /\ subscriptions[s].websiteId = last.id
                                     /\ subscriptions[s].status = "active"

\* C4: after a successful immediate cancel the record is 'canceled', not
\* scheduled for cancellation, its period has ended (currentPeriodEnd <= now)
\* and it is not entitling.
C4_ImmediateCancelEndsPeriod ==
  (last.op = "cancel" /\ last.arg = "immediate" /\ last.code = 200)
    => (/\ subscriptions[last.id].status = "canceled"
        /\ ~subscriptions[last.id].cancelAtPeriodEnd
        /\ subscriptions[last.id].currentPeriodEnd <= now
        /\ ~isActive(subscriptions[last.id], now))

\* C4 happens: an immediate cancel has succeeded, stamped with the current
\* time, before the last instant of the clock.
C4_Witness ==
  /\ last.op = "cancel" /\ last.arg = "immediate" /\ last.code = 200
  /\ subscriptions[last.id].canceledAt = now
  /\ now < MaxTime

\* C5: a successful cancel at period end changes only cancelAtPeriodEnd (to
\* true) and canceledAt (to now): status and currentPeriodEnd stay as they
\* were, whatever status the provider reports.
C5_CancelAtPeriodEndFrame ==
  [][(last'.op = "cancel" /\ last'.arg = "period_end" /\ last'.code = 200)
       => subscriptions'[last'.id] =
            [subscriptions[last'.id] EXCEPT !.cancelAtPeriodEnd = TRUE,
                                            !.canceledAt = now]]_vars

\* C6: reactivate on a record whose cancelAtPeriodEnd is false is rejected,
\* issues no provider call and changes no record.
C6_ReactivateUnscheduledRejected ==
  [][(/\ last'.op = "reactivate"
      /\ last'.id \in DOMAIN subscriptions
      /\ ~subscriptions[last'.id].cancelAtPeriodEnd)
       => (/\ last'.code \in {400, 403}
           /\ last'.stripe = "none"
           /\ subscriptions' = subscriptions)]_vars

\* C6 happens: the owner's reactivate of an existing, unscheduled record has
\* been answered 400.
C6_Witness ==
  /\ last.op = "reactivate"
  /\ last.code = 400
  /\ last.id \in DOMAIN subscriptions
  /\ ~subscriptions[last.id].cancelAtPeriodEnd
  /\ subscriptions[last.id].status # "active"

\* C7: invoice.payment_failed for an existing record sets status to
\* 'incomplete' and changes no other field of it, and no other record.
C7_PaymentFailedOnlyStatus ==
  [][(/\ last'.op = "webhook"
      /\ last'.arg = "invoice.payment_failed"
      /\ last'.code = 200
      /\ last'.id \in DOMAIN subscriptions)
       => subscriptions' =
            [subscriptions EXCEPT ![last'.id].status = "incomplete"]]_vars

\* C7 happens: a payment failure has been ingested for a record that is
\* scheduled for cancellation and carries a canceledAt and a period.
C7_Witness ==
  /\ last.op = "webhook"
  /\ last.arg = "invoice.payment_failed"
  /\ last.code = 200
  /\ last.id \in DOMAIN subscriptions
  /\ subscriptions[last.id].status = "incomplete"
  /\ subscriptions[last.id].cancelAtPeriodEnd
  /\ subscriptions[last.id].canceledAt # Null
  /\ subscriptions[last.id].currentPeriodEnd > now

\* C8: applying one customer.subscription.deleted event a second time, now
\* or later, leaves the collection as the first application left it, with
\* and without canceled_at in the payload.
C8_DeletedIdempotent ==
  \A sid \in DOMAIN subscriptions, canceled_at \in Times \cup {Null},
     later \in Times :
    later >= now =>
      LET once == handleSubscriptionDeleted(subscriptions, sid, canceled_at,
                                            now).subs
      IN  handleSubscriptionDeleted(once, sid, canceled_at, later).subs = once

\* C9: a signature-verified customer.subscription.deleted event for an id
\* with no local record is answered 200 and leaves the collection as it was.
C9_DeletedUnknownIgnored ==
  [][(/\ last'.op = "webhook"
      /\ last'.arg = "customer.subscription.deleted"
      /\ last'.code # 400
      /\ last'.id \notin DOMAIN subscriptions)
       => (last'.code = 200 /\ subscriptions' = subscriptions)]_vars

\* C9 happens: the event named an unknown id while the ledger held another
\* record, and no record of that id exists afterwards.
C9_Witness ==
  /\ last.op = "webhook"
  /\ last.arg = "customer.subscription.deleted"
  /\ last.code = 200
  /\ last.id \notin DOMAIN subscriptions
  /\ DOMAIN subscriptions # {}

\* C10: the bulk query answers with exactly one entry per requested website
\* id, each either entitled with its record or not entitled with null, also
\* when the store read fails.
C10_BulkHasEveryEntry ==
  last.op = "bulk" =>
    /\ DOMAIN last.body.statusMap = last.body.ids
    /\ \A w \in DOMAIN last.body.statusMap :
         \/ /\ last.body.statusMap[w].hasActive
            /\ last.body.statusMap[w].subscription \in DOMAIN subscriptions
         \/ /\ ~last.body.statusMap[w].hasActive
            /\ last.body.statusMap[w].subscription = NoId

\* C11: cancel is rejected, with no provider call and no change to any
\* record, when no record has the subscriptionId, when a supplied userId is
\* not the record's, and when the record is already 'canceled'.
C11_CancelRejectedUntouched ==
  \A sid \in EventSubs, userId \in UserIds \cup {NoId},
     cancelImmediately \in BOOLEAN, stripe \in StripeResults(Statuses) :
    LET r == cancelSubscription(subscriptions, sid, userId, cancelImmediately,
                                stripe, now)
    IN  (\/ sid \notin DOMAIN subscriptions
         \/ (userId # NoId /\ subscriptions[sid].userId # userId)
         \/ subscriptions[sid].status = "canceled")
          => (/\ r.code \in {400, 403, 404}
              /\ r.stripe = "none"
              /\ r.subs = subscriptions)

\* C11 happens: a cancel of an existing, already canceled record has been
\* answered 400 without a provider call.
C11_Witness ==
  /\ last.op = "cancel"
  /\ last.code = 400
  /\ last.stripe = "none"
  /\ last.id \in DOMAIN subscriptions
  /\ subscriptions[last.id].status = "canceled"

\* C12: when the provider's call fails during cancel with error code
\* resource_missing, the answer is 404, whatever the type of the error.
C12_MissingUpstreamIs404 ==
  \A sid \in DOMAIN subscriptions, cancelImmediately \in BOOLEAN,
     stripe \in StripeResults(Statuses) :
    (/\ subscriptions[sid].status # "canceled"
     /\ ~stripe.ok
     /\ stripe.code = "resource_missing")
      => cancelSubscription(subscriptions, sid, NoId, cancelImmediately,
                            stripe, now).code = 404

\* C13: a webhook delivery is answered 400 exactly when its signature is
\* rejected, and then no record changes; a verified delivery whose handler
\* threw is answered 500; every other verified delivery is answered 200 with
\* received: true and the event type.
C13_WebhookAnswers ==
  [][last'.op = "webhook"
       => (/\ (last'.code = 400 <=> ~last'.body.verified)
           /\ (~last'.body.verified
                 => (subscriptions' = subscriptions /\ websites' = websites))
           /\ ((last'.body.verified /\ last'.body.threw) => last'.code = 500)
           /\ ((last'.body.verified /\ ~last'.body.threw)
                 => (/\ last'.code = 200
                     /\ last'.body.received
                     /\ last'.body.eventType = last'.arg)))]_vars

\* C13 happens: a verified delivery about an existing record failed in its
\* handler and was answered 500.
C13_Witness ==
  /\ last.op = "webhook"
  /\ last.body.verified
  /\ last.body.threw
  /\ last.code = 500
  /\ last.id \in DOMAIN subscriptions

\* C14: a verified event of a type that is not one of the six handled types
\* is answered 200 and changes no Subscription and no Website record.
C14_UnknownEventIgnored ==
  [][(/\ last'.op = "webhook"
      /\ last'.body.verified
      /\ last'.arg \notin HandledEventTypes)
       => (/\ last'.code = 200
           /\ subscriptions' = subscriptions
           /\ websites' = websites)]_vars

\* C14 happens: an unhandled event type about an existing record has been
\* answered 200.
C14_Witness ==
  /\ last.op = "webhook"
  /\ last.arg \notin HandledEventTypes
  /\ last.body.verified
  /\ last.code = 200
  /\ last.id \in DOMAIN subscriptions

\* C15: after an event has been ingested, the stored status of the record it
\* is about is neither 'past_due' nor 'unpaid'.
C15_IngestedStatusNormalized ==
  (/\ last.op = "webhook"
   /\ last.code = 200
   /\ last.id \in DOMAIN subscriptions)
    => subscriptions[last.id].status \notin {"past_due", "unpaid"}

\* C17: the set of subscriptionIds with a record grows only in a delivery of
\* checkout.session.completed or invoice.payment_succeeded: no other event
\* and neither command creates a record, whatever id it names.
C17_OnlyUpsertsCreate ==
  [][~(DOMAIN subscriptions' \subseteq DOMAIN subscriptions)
       => (/\ last'.op = "webhook"
           /\ last'.arg \in {"checkout.session.completed",
                             "invoice.payment_succeeded"})]_vars

\* C17 happens: customer.subscription.updated named an id without a record
\* while the ledger held another record, and was answered 200 without
\* creating one.
C17_Witness ==
  /\ last.op = "webhook"
  /\ last.arg = "customer.subscription.updated"
  /\ last.code = 200
  /\ last.id \notin DOMAIN subscriptions
  /\ DOMAIN subscriptions # {}

\* C18: no step other than a website deletion removes a Subscription record,
\* and after a successful website deletion no record of that website is left.
C18_RemovedOnlyWithWebsite ==
  [][/\ (~(DOMAIN subscriptions \subseteq DOMAIN subscriptions')
           => last'.op = "delete-website")
     /\ ((last'.op = "delete-website" /\ last'.code = 200)
           => \A s \in DOMAIN subscriptions' :
                subscriptions'[s].websiteId # last'.id)]_vars

\* C18 happens: a website with two records has been deleted, and both were
\* removed with it.
C18_Witness ==
  /\ last.op = "delete-website"
  /\ last.code = 200
  /\ last.body.deletedCount = 2
  /\ last.id \notin DOMAIN websites
  /\ DOMAIN subscriptions = {}

\* C19: at every state, no website has two records that are both entitling
\* (status 'active' and currentPeriodEnd > now).
C19_OneEntitlingPerWebsite ==
  \A w \in WebsiteIds :
    Cardinality({s \in DOMAIN subscriptions :
                   /\ subscriptions[s].websiteId = w
                   /\ isActive(subscriptions[s], now)}) <= 1

C20_CustomDomainUnique ==
  \A w1, w2 \in DOMAIN websites :
    (w1 # w2 /\ websites[w1].customDomain = websites[w2].customDomain)
      => websites[w1].customDomain = ""

\* C21: every successful custom-domain assignment leaves the website with
\* isCustomDomainVerified false and domainVerifiedAt null, whatever they were
\* before, also when the domain assigned is the one stored and verified.
C21_AssignResetsVerification ==
  \A w \in DOMAIN websites, domain \in RequestDomains \cup {NoId} :
    \A sub \in findOneActive(subscriptions, websites[w].userId, w) :
      LET r == setCustomDomain(websites, subscriptions, w, domain, sub, now)
      IN  r.code = 200 => (/\ ~r.sites[w].isCustomDomainVerified
                           /\ r.sites[w].domainVerifiedAt = Null)

\* C21 happens: a website holds a verified domain, and assigning that same
\* domain again succeeds and leaves it unverified.
C21_Witness ==
  \E w \in DOMAIN websites :
    /\ websites[w].isCustomDomainVerified
    /\ websites[w].domainVerifiedAt # Null
    /\ \E sub \in findOneActive(subscriptions, websites[w].userId, w) :
         LET r == setCustomDomain(websites, subscriptions, w,
                                  websites[w].customDomain, sub, now)
         IN  r.code = 200 /\ ~r.sites[w].isCustomDomainVerified

\* C22: for every record and every time, checkSubscription, isActive,
\* isSubscriptionValid, hasActiveSubscription and the hasActiveSubscription
\* flags of the website detail and list endpoints all answer
\* (status = 'active' and currentPeriodEnd > now), reads succeeding.
C22_ConsumersAgree ==
  \A s \in DOMAIN subscriptions :
    LET sub == subscriptions[s]
        only == [x \in {s} |-> sub]
        entitled == sub.status = "active" /\ sub.currentPeriodEnd > now
    IN  /\ checkSubscription(only, sub.userId, sub.websiteId, now) = entitled
        /\ isActive(sub, now) = entitled
        /\ isSubscriptionValid(sub, now) = entitled
        /\ hasActiveSubscription(only, sub.userId, sub.websiteId, TRUE, now)
             = entitled
        /\ getWebsiteEdit(only, websites, sub.websiteId) = entitled
        /\ getWebsiteList(only, websites, sub.userId)[sub.websiteId] = entitled

\* C23: when the provider call of a cancel (either mode) or of a reactivate
\* fails, no record changes; a cancel or reactivate changes a record only
\* when its provider call has succeeded.
C23_FailedProviderCallWritesNothing ==
  [][last'.op \in {"cancel", "reactivate"}
       => (/\ (last'.stripe # "none" /\ last'.code # 200)
                 => subscriptions' = subscriptions
           /\ subscriptions' # subscriptions
                 => (last'.stripe # "none" /\ last'.code = 200))]_vars

\* C23 happens: the provider call of a reactivate of a scheduled record has
\* failed, and the record is still scheduled for cancellation.
C23_Witness ==
  /\ last.op = "reactivate"
  /\ last.stripe = "update"
  /\ last.code = 500
  /\ last.id \in DOMAIN subscriptions
  /\ subscriptions[last.id].cancelAtPeriodEnd
  /\ subscriptions[last.id].status # "active"

\* C25: ingestion is last-write-wins: right after a
\* customer.subscription.deleted event has canceled a record, a
\* customer.subscription.updated event that carries an older state (status
\* 'active', current_period_end in the future) puts the record back to
\* 'active' and makes it entitling again.
C25_StaleUpdateOverwrites ==
  (/\ last.op = "webhook"
   /\ last.arg = "customer.subscription.deleted"
   /\ last.code = 200
   /\ last.id \in DOMAIN subscriptions)
    => \A ev \in StripeSubscriptionEvents({last.id}, {"active"}) :
         ev.current_period_end > now =>
           LET after == handleSubscriptionUpdated(subscriptions, ev).subs
           IN  /\ after[last.id].status = "active"
               /\ isActive(after[last.id], now)

\* C25 happens: a deleted event has canceled an existing record while a
\* period that ends later can still be reported, and the stale update makes
\* the record entitling.
C25_Witness ==
  /\ last.op = "webhook"
  /\ last.arg = "customer.subscription.deleted"
  /\ last.code = 200
  /\ last.id \in DOMAIN subscriptions
  /\ subscriptions[last.id].status = "canceled"
  /\ ~isActive(subscriptions[last.id], now)
  /\ \E ev \in StripeSubscriptionEvents({last.id}, {"active"}) :
       /\ ev.current_period_end > now
       /\ isActive(handleSubscriptionUpdated(subscriptions, ev).subs[last.id],
                   now)

\* C29: a successful reactivate of a record whose status is 'canceled' or
\* 'incomplete' does not leave it with status 'active'.
C29_ReactivateKeepsStatus ==
  [][(/\ last'.op = "reactivate"
      /\ last'.code = 200
      /\ subscriptions[last'.id].status \in {"canceled", "incomplete"})
       => subscriptions'[last'.id].status # "active"]_vars

\* C24: website deletion removes the Subscription records first and the
\* Website record second: the step in which a Website record goes leaves no
\* Subscription record that names a website without a record.
C24_SubscriptionsGoFirst ==
  [][DOMAIN websites' # DOMAIN websites
       => \A s \in DOMAIN subscriptions' :
            subscriptions'[s].websiteId \in DOMAIN websites']_vars

\* C28: no step creates a Subscription record whose websiteId names a
\* website that does not exist: an event ingested after a website deletion
\* has completed creates no record for the deleted website.
C28_NoRecordForDeletedWebsite ==
  [][\A s \in DOMAIN subscriptions' \ DOMAIN subscriptions :
       subscriptions'[s].websiteId \in DOMAIN websites']_vars

\* C26: when a delivery of checkout.session.completed or
\* invoice.payment_succeeded that retrieved the subscription before an
\* immediate cancel writes right after that cancel has saved, the record is
\* still 'canceled' and not entitling.
C26_CancelSurvivesUpsert ==
  [][(/\ last.op = "cancel"
      /\ last.arg = "immediate"
      /\ last.code = 200
      /\ last'.op = "webhook"
      /\ last'.id = last.id
      /\ last'.code = 200)
       => (/\ subscriptions'[last'.id].status = "canceled"
           /\ ~isActive(subscriptions'[last'.id], now'))]_vars

\* C27: a website becomes verified, or changes its customDomain while it
\* stays verified, only in the step that completes a verification of the
\* very domain it then stores: a verification started for an old domain
\* never marks a newly assigned domain verified.
C27_VerifiedDomainIsStored ==
  [][\A w \in DOMAIN websites' :
       (/\ websites'[w].isCustomDomainVerified
        /\ (\/ ~websites[w].isCustomDomainVerified
            \/ websites'[w].customDomain # websites[w].customDomain))
         => \E d \in inflight \ inflight' :
              /\ d.op = "verify-domain"
              /\ d.w = w
              /\ d.domain = websites'[w].customDomain]_vars

\* C30: for each website id the bulk query reports, hasActive is true
\* exactly when some record of that user and website has status 'active' and
\* currentPeriodEnd > now, whatever the order in which the store returns the
\* records.
C30_BulkReportsEntitlement ==
  last.op = "bulk" =>
    \A w \in DOMAIN last.body.statusMap :
      last.body.statusMap[w].hasActive
        <=> \E s \in DOMAIN subscriptions :
              /\ subscriptions[s].userId = last.arg
              /\ subscriptions[s].websiteId = w
              /\ subscriptions[s].status = "active"
              /\ subscriptions[s].currentPeriodEnd > now

====
